---- MODULE Spec2Model ----
(***************************************************************************)
(* The peer association task of ntp-daemon (src/ntp-daemon/src/peer.rs):   *)
(* one PeerTask running its event loop `run`, a tokio::select! over the    *)
(* poll timer, the reset watch channel and the socket, together with its   *)
(* environment: the supervisor (publishes reset epochs, drains the message *)
(* channel), the monotonic clock and the network.                          *)
(*                                                                         *)
(* Peer State (ntp_proto::Peer) lives in ntp-proto/src/peer.rs, which is   *)
(* not among the sources at hand; its three operations used by the task   *)
(* are modelled from section 4.2 of the specification.                     *)
(*                                                                         *)
(* The second part models the pure functions of the core: the clock filter *)
(* (src/ntp-proto/src/filter.rs) and accept_packet, applied to inputs drawn *)
(* from bounded sets (CoreSpec).                                           *)
(***************************************************************************)
EXTENDS Integers, Sequences, FiniteSets, TLC

(***************************************************************************)
(* Bounds of the model.                                                    *)
(***************************************************************************)
\* The monotonic clock (tokio Instant) runs from 0 to MaxInstant.
MaxInstant == 1
\* The supervisor publishes at most MaxResets epochs on the reset channel.
MaxResets == 2

(***************************************************************************)
(* Program constants.                                                      *)
(***************************************************************************)
\* Option::None of last_send_timestamp and next_expected_origin.
None == -1
\* The size of a serialized NTP header, and of the receive buffer.
HeaderSize == 48
\* Peer State's poll interval, in ticks of the monotonic clock, lies between
\* the bounds of the system configuration.
MinInterval == 1
MaxInterval == 2
\* Capacity of the msg_for_system channel (mpsc::channel(1)).
MsgCapacity == 1

\* ResetEpoch::default().
DefaultEpoch == 0

\* ResetEpoch::inc. The wrapping u64 addition wraps at 2^64; the epochs of a
\* run with at most MaxResets resets stay far below it.
inc(e) == e + 1

\* The epoch the reset channel holds at spawn: not the default one, so that
\* a task starting from the default is told apart (test_spawn_reset_epoch).
InitialEpoch == inc(DefaultEpoch)

\* Readings of the injected NtpClock (clock.now()); the clock is not
\* monotonic (it may be stepped), so any reading can follow any other.
ClockReadings == {1, 2}

(***************************************************************************)
(* Datagrams as the socket delivers them.                                  *)
(*   res    the shape of the receive result                                *)
(*   size   the number of bytes reported                                   *)
(*   origin the origin timestamp of the header                             *)
(*   kind   what Peer State makes of the rest of the header                *)
(***************************************************************************)
RecvResults == {"ok", "no_timestamp", "io_error"}
AcceptedSizes == {HeaderSize, HeaderSize + 1}
PacketKinds == {"server", "kiss_deny", "kiss_rate", "bad_mode"}

VARIABLES
    pc,                   \* position of the task: "select", "poll_send",
                          \* "packet_send", "done" (run returned), "panicked"
    pending,              \* the message whose send is awaited, as a sequence of 0 or 1
    reset_epoch,          \* PeerTask.reset_epoch
    last_send_timestamp,  \* PeerTask.last_send_timestamp
    last_poll_sent,       \* PeerTask.last_poll_sent
    deadline,             \* deadline of poll_wait
    next_expected_origin, \* Peer State: nonce of the outstanding poll
    poll_interval,        \* Peer State: current poll interval
    polls,                \* Peer State: number of polls generated
    watchValue,           \* reset channel: the value held
    watchVersion,         \* reset channel: number of values published
    rxVersion,            \* reset channel: version the task's receiver has seen
    queued,               \* msg_for_system channel: messages not yet drained
    instant,              \* the monotonic clock
    log,                  \* history: messages emitted and socket sends, in order
    invalidated,          \* history: nonces issued before a processed reset
    skipped,              \* history: epochs overwritten on the channel unseen
    staleEmitted,         \* history: epoch-tagged messages emitted since the last
                          \* publish while its reset is not processed (0, 1, 2 = more)
    accepted,             \* history: nonces echoed by a server response that
                          \* handle_incoming accepted
    ignoredEcho,          \* history: <<nonce, why>> of the first server response
                          \* echoing a sent nonce that handle_incoming turned down
                          \* as a mismatch; <<>> while there is none
    recvProgress,         \* history: how far a receive result has got so far:
                          \* "none", "dropped" (no poll was sent), "peer"
                          \* (handle_incoming was called)
    resetsDone,           \* history: number of times the reset branch ran
    stamped,              \* history: the poll at whose transmission
                          \* last_send_timestamp was read (0: none yet)
    register,             \* ClockFilterContents.register of the association
    updates,              \* number of clock_filter calls that returned Some
    overflow_checks,      \* the build: whether integer overflow panics
    last                  \* the last call of a pure function: inputs and result

vars == <<pc, pending, reset_epoch, last_send_timestamp, last_poll_sent, deadline,
          next_expected_origin, poll_interval, polls, watchValue, watchVersion,
          rxVersion, queued, instant, log, invalidated, skipped, staleEmitted,
          accepted, ignoredEcho, recvProgress, resetsDone, stamped,
          register, updates, overflow_checks, last>>

taskVars == <<pc, pending, reset_epoch, last_send_timestamp, last_poll_sent, deadline>>
peerVars == <<next_expected_origin, poll_interval, polls>>
watchVars == <<watchValue, watchVersion, rxVersion>>
ghostVars == <<invalidated, skipped, staleEmitted, accepted, ignoredEcho, recvProgress,
               resetsDone, stamped>>
coreVars == <<register, updates, overflow_checks, last>>

(***************************************************************************)
(* Messages and log entries. `nonce` is history: the poll a snapshot or a  *)
(* datagram belongs to, the origin timestamp of the packet a measurement   *)
(* or a demobilization answers.                                            *)
(***************************************************************************)
Msg(kind, epoch, nonce) ==
    [kind |-> kind, epoch |-> epoch, nonce |-> nonce, size |-> 0, ok |-> TRUE]
\* A call of socket.send with the serialized poll packet carrying `nonce`;
\* ok tells whether the datagram went out.
Datagram(nonce, ok) ==
    [kind |-> "Datagram", epoch |-> None, nonce |-> nonce, size |-> HeaderSize, ok |-> ok]

IsMessage(e) == e.kind \in {"UpdatedSnapshot", "NewMeasurement", "MustDemobilize"}
IsTagged(e) == e.kind \in {"UpdatedSnapshot", "NewMeasurement"}
Messages == SelectSeq(log, IsMessage)

\* Nonces that went out on the wire: only these can be echoed by a response.
SentNonces == {log[i].nonce : i \in {j \in DOMAIN log : log[j].kind = "Datagram" /\ log[j].ok}}

\* What socket.recv can return. Of a result that accept_packet takes, the
\* header is told apart by its origin timestamp and its kind. A server
\* response echoes a nonce that went out, or carries any other value (0); it
\* comes with the answer of the clock filter. A header of another kind
\* echoes the outstanding nonce or not (0). For a header that is ignored
\* after its origin matched, `consume` tells whether Peer State uses up the
\* nonce.
ReceiveResult(res, size, origin, kind, filterOk, consume) ==
    [res |-> res, size |-> size, origin |-> origin, kind |-> kind,
     filterOk |-> filterOk, consume |-> consume]
Datagrams ==
    {ReceiveResult(res, HeaderSize, 0, "server", FALSE, FALSE) :
        res \in RecvResults \ {"ok"}}
    \cup {ReceiveResult("ok", HeaderSize - 1, 0, "server", FALSE, FALSE)}
    \cup {ReceiveResult("ok", size, origin, "server", filterOk, ~filterOk /\ consume) :
        size \in AcceptedSizes, origin \in SentNonces \cup {0},
        filterOk \in BOOLEAN, consume \in BOOLEAN}
    \cup {ReceiveResult("ok", HeaderSize, origin, kind, FALSE, consume) :
        origin \in (SentNonces \cap {next_expected_origin}) \cup {0},
        kind \in PacketKinds \ {"server"}, consume \in BOOLEAN}

(***************************************************************************)
(* Peer State, from section 4.2 of the specification.                      *)
(***************************************************************************)
\* generate_poll_message: the packet's transmit timestamp is a fresh nonce,
\* stored as next_expected_origin.
generate_poll_message == polls + 1

\* handle_incoming: the result for a header with origin `origin` and of kind
\* `kind`, when the clock filter answers `filterOk`.
handle_incoming(origin, kind, filterOk) ==
    IF origin # next_expected_origin \/ next_expected_origin = None THEN "OriginMismatch"
    ELSE IF kind = "bad_mode" THEN "InvalidMode"
    ELSE IF kind = "kiss_deny" THEN "KissDemobilize"
    ELSE IF kind = "kiss_rate" THEN "KissRateLimit"
    ELSE IF filterOk THEN "Ok"
    ELSE "FilterRejectedAsOld"

\* handle_incoming: the poll interval afterwards (a rate-limit kiss code
\* adjusts it upward, within the bounds).
interval_after_incoming(result) ==
    IF result = "KissRateLimit" /\ poll_interval < MaxInterval
    THEN poll_interval + 1 ELSE poll_interval

\* current_poll_interval, as read after the handler's changes to Peer State.
current_poll_interval == poll_interval'

\* handle_incoming: the expected origin afterwards. An accepted response uses
\* up the nonce (a second copy is a DuplicateOrReplay); the specification
\* leaves open whether a response that matched but was then ignored uses it
\* up too, so both are allowed (`consume`).
origin_after_incoming(result, consume) ==
    IF result = "Ok" THEN None
    ELSE IF result = "OriginMismatch" THEN next_expected_origin
    ELSE IF consume THEN None ELSE next_expected_origin

\* reset_measurements: clears next_expected_origin.
reset_measurements == None

(***************************************************************************)
(* accept_packet: whether the receive result yields a header.              *)
(***************************************************************************)
\* As accept_packet, turning down a packet of exactly the size of a header.
accept_packet_above_header(res, size) == res = "ok" /\ size > HeaderSize

\* accept_packet: whether it returns a header for the receive result.
accept_packet(res, size) ==
    IF res = "ok" THEN (IF size < HeaderSize THEN FALSE ELSE TRUE)
    ELSE FALSE

\* NtpHeader::deserialize of the 48 bytes of the receive buffer.
deserialize(buf) == [packet |-> buf]

\* accept_packet: what it returns for the receive result (`recv_timestamp`
\* is the kernel's timestamp of a result that has one) and the buffer.
accept_packet_value(res, size, buf, recv_timestamp) ==
    IF accept_packet(res, size)
    THEN [tag |-> "Some", header |-> deserialize(buf), recv_timestamp |-> recv_timestamp]
    ELSE [tag |-> "None"]

(***************************************************************************)
(* The clock filter (src/ntp-proto/src/filter.rs).                         *)
(*                                                                         *)
(* NtpDuration and NtpTimestamp (ntp-proto/src/time.rs) are not among the  *)
(* sources at hand. Following section 4.3 of the specification they are    *)
(* signed fixed-point numbers whose division by an integer truncates       *)
(* toward zero; here one unit is 1/16 s instead of 2^-32 s, which keeps    *)
(* MAX_DISPERSION (16 s) a multiple of 2^8 as it is in the program, and    *)
(* the values of the model stay far from the ends of the 64-bit range.     *)
(***************************************************************************)
\* NtpDuration::MAX_DISPERSION, 16 s.
MAX_DISPERSION == 256

\* Division of an NtpDuration by an integer: i64 division, toward zero.
duration_div(a, b) == IF a >= 0 THEN a \div b ELSE -((-a) \div b)

\* NtpLeapIndicator::is_synchronized: every indicator but Unknown.
LeapIndicators == {"NoWarning", "Unknown"}
is_synchronized(leap) == leap # "Unknown"

\* As multiply_by_phi, rounding downward instead of toward zero.
multiply_by_phi_floor(duration) == (duration * 15) \div 1000000

\* multiply_by_phi: 15 ppm of a duration.
multiply_by_phi(duration) == duration_div(duration * 15, 1000000)

FilterTuple(offset, delay, dispersion, time) ==
    [offset |-> offset, delay |-> delay, dispersion |-> dispersion, time |-> time]

\* FilterTuple::DUMMY.
DUMMY == FilterTuple(0, MAX_DISPERSION, MAX_DISPERSION, 0)

is_dummy(tuple) == tuple = DUMMY

\* The number of stages of the register.
RegisterLen == 8

\* ClockFilterContents::new.
ClockFilterContents_new == [i \in 1..RegisterLen |-> DUMMY]

\* The loop of shift_and_insert from stage i on: the stage is aged unless it
\* is the dummy, then swapped with `current`.
RECURSIVE shift_loop(_, _, _, _)
shift_loop(reg, current, dispersion_correction, i) ==
    IF i > Len(reg) THEN reg
    ELSE LET aged == IF ~is_dummy(reg[i])
                     THEN [reg[i] EXCEPT !.dispersion = @ + dispersion_correction]
                     ELSE reg[i]
         IN  shift_loop([reg EXCEPT ![i] = current], aged, dispersion_correction, i + 1)

\* As shift_and_insert, aging the dummy tuples too.
shift_and_insert_aging_dummy(reg, current, dispersion_correction) ==
    [i \in 1..Len(reg) |->
        IF i = 1 THEN current
        ELSE [reg[i - 1] EXCEPT !.dispersion = @ + dispersion_correction]]

\* ClockFilterContents::shift_and_insert.
shift_and_insert(reg, current, dispersion_correction) ==
    shift_loop(reg, current, dispersion_correction, 1)

\* The comparison of sort_by: partial_cmp on the delays.
delay_less(t1, t2) == t1.delay < t2.delay

\* slice::sort_by, a stable sort: each tuple goes behind the tuples before
\* it that do not compare greater.
RECURSIVE sort_insert(_, _)
sort_insert(sorted, t) ==
    IF sorted = <<>> THEN <<t>>
    ELSE IF delay_less(t, sorted[Len(sorted)]) 
         THEN Append(sort_insert(SubSeq(sorted, 1, Len(sorted) - 1), t), sorted[Len(sorted)])
         ELSE Append(sorted, t)

RECURSIVE sort_by_delay(_)
sort_by_delay(reg) ==
    IF reg = <<>> THEN <<>>
    ELSE sort_insert(sort_by_delay(SubSeq(reg, 1, Len(reg) - 1)), reg[Len(reg)])

\* As from_clock_filter_contents, without the sort.
from_clock_filter_contents_unsorted(source) == source

\* TemporaryList::from_clock_filter_contents: a sorted copy.
from_clock_filter_contents(source) == sort_by_delay(source)

\* TemporaryList::smallest_delay.
smallest_delay(temporary) == temporary[1]

\* The dummies at the end of the temporary list.
RECURSIVE num_invalid_tuples(_)
num_invalid_tuples(temporary) ==
    IF temporary = <<>> \/ ~is_dummy(temporary[Len(temporary)]) THEN 0
    ELSE 1 + num_invalid_tuples(SubSeq(temporary, 1, Len(temporary) - 1))

\* TemporaryList::valid_tuples.
valid_tuples(temporary) ==
    SubSeq(temporary, 1, Len(temporary) - num_invalid_tuples(temporary))

RECURSIVE SumTo(_, _)
SumTo(f, n) == IF n = 0 THEN 0 ELSE f[n] + SumTo(f, n - 1)

\* As dispersion, with the first stage at full weight.
dispersion_full_first(temporary) ==
    SumTo([i \in 1..Len(temporary) |-> duration_div(temporary[i].dispersion, 2^(i - 1))],
          Len(temporary))

\* As dispersion, summing over the valid tuples only.
dispersion_valid_only(temporary) ==
    SumTo([i \in 1..Len(temporary) |->
              IF is_dummy(temporary[i]) THEN 0
              ELSE duration_div(temporary[i].dispersion, 2^i)],
          Len(temporary))

\* TemporaryList::dispersion: stage i (counted from 0) weighs 1 / 2^(i+1).
dispersion(temporary) ==
    SumTo([i \in 1..Len(temporary) |-> duration_div(temporary[i].dispersion, 2^i)],
          Len(temporary))

(***************************************************************************)
(* f64 values of the jitter: Float(sq, den) stands for sqrt(sq) / den,     *)
(* which is NaN for 0 / 0 and infinite for a positive value over 0.        *)
(***************************************************************************)
Float(sq, den) == [sq |-> sq, den |-> den]
FloatOf(x) == Float(x * x, 1)
IsNaN(x) == x.sq = 0 /\ x.den = 0
\* f64::max: of a NaN and a number, the number.
f64_max(x, y) ==
    IF IsNaN(x) THEN y
    ELSE IF IsNaN(y) THEN x
    ELSE IF x.sq * y.den * y.den >= y.sq * x.den * x.den THEN x ELSE y
\* x has the value of the number v.
FloatIs(x, v) == ~IsNaN(x) /\ x.den # 0 /\ x.sq = v * v * x.den * x.den
\* In place of a value: the computation panicked.
Panic == Float(-1, 0)
IsPanic(x) == x.sq < 0

\* As jitter_help, without the lower bound.
jitter_help_no_floor(valid, smallest, system_precision) ==
    Float(SumTo([j \in 1..Len(valid) |->
                    (valid[j].offset - smallest.offset) * (valid[j].offset - smallest.offset)],
                Len(valid)),
          Len(valid) - 1)

\* As jitter_help, dividing by the number of valid tuples.
jitter_help_by_n(valid, smallest, system_precision) ==
    f64_max(Float(SumTo([j \in 1..Len(valid) |->
                            (valid[j].offset - smallest.offset) * (valid[j].offset - smallest.offset)],
                        Len(valid)),
                  Len(valid)),
            FloatOf(system_precision))

\* TemporaryList::jitter_help. With no valid tuple the subtraction
\* `valid_tuples.len() - 1` overflows: a panic in a build with overflow
\* checks; otherwise it wraps to usize::MAX, by which the empty sum, 0, is
\* divided.
jitter_help(valid, smallest, system_precision) ==
    LET root_mean_square_sq ==
            SumTo([j \in 1..Len(valid) |->
                      (valid[j].offset - smallest.offset) * (valid[j].offset - smallest.offset)],
                  Len(valid))
    IN  IF Len(valid) = 0
        THEN (IF overflow_checks THEN Panic
              ELSE f64_max(Float(0, 1), FloatOf(system_precision)))
        ELSE f64_max(Float(root_mean_square_sq, Len(valid) - 1), FloatOf(system_precision))

\* TemporaryList::jitter.
jitter(temporary, smallest, system_precision) ==
    jitter_help(valid_tuples(temporary), smallest, system_precision)

\* The difference of two NtpTimestamps, an NtpDuration.
timestamp_sub(a, b) == a - b

\* Option<PeerStatistics>, and the panic in place of a return.
NoStatistics == [tag |-> "None"]
Panicked == [tag |-> "panic"]
PeerStatistics(offset, delay, disp, jit, filter, filter_time) ==
    [tag |-> "Some", offset |-> offset, delay |-> delay, dispersion |-> disp,
     jitter |-> jit, filter |-> filter, filter_time |-> filter_time]

\* As prime_directive, turning down only what is older than the last update.
prime_directive_older_only(best, peer_time, leap_indicator) ==
    timestamp_sub(best.time, peer_time) < 0 /\ is_synchronized(leap_indicator)

\* clock_filter, the prime directive: whether the sample to use is turned
\* down as not newer than the last update.
prime_directive(best, peer_time, leap_indicator) ==
    timestamp_sub(best.time, peer_time) <= 0 /\ is_synchronized(leap_indicator)

\* The statistics of clock_filter once the newness check has passed.
statistics(filter, temporary_list, best, system_precision) ==
    LET jit == jitter(temporary_list, best, system_precision)
    IN  IF IsPanic(jit) THEN Panicked
        ELSE PeerStatistics(best.offset, best.delay, dispersion(temporary_list), jit,
                            filter, best.time)

\* clock_filter.
clock_filter(peer_time, system_precision, leap_indicator, filter, new_tuple) ==
    LET dispersion_correction == multiply_by_phi(timestamp_sub(new_tuple.time, peer_time))
        shifted == shift_and_insert(filter, new_tuple, dispersion_correction)
        temporary_list == from_clock_filter_contents(shifted)
        best == smallest_delay(temporary_list)
    IN  IF prime_directive(best, peer_time, leap_indicator)
        THEN NoStatistics
        ELSE statistics(shifted, temporary_list, best, system_precision)

(***************************************************************************)
(* The pieces of the task's handlers.                                      *)
(***************************************************************************)
\* As spawn_reset_epoch, starting from the default epoch.
spawn_reset_epoch_default == DefaultEpoch

\* spawn: the epoch the task starts with is read from the reset channel.
spawn_reset_epoch == watchValue

\* As update_poll_wait, with the poll interval as it was before the handler
\* changed Peer State.
update_poll_wait_before_handling == deadline' = last_poll_sent' + poll_interval

\* update_poll_wait, called once the handler has changed last_poll_sent and
\* Peer State: the deadline is reset to last_poll_sent + current_poll_interval.
update_poll_wait == deadline' = last_poll_sent' + current_poll_interval

\* As UpdatedSnapshot, tagged with the channel's epoch instead of the task's own.
UpdatedSnapshot_channel_epoch(nonce) == Msg("UpdatedSnapshot", watchValue, nonce)

\* handle_poll: the message built after the poll packet is generated.
UpdatedSnapshot(nonce) == Msg("UpdatedSnapshot", reset_epoch, nonce)

\* As poll_send, sending the packet twice.
poll_send_twice(nonce, sendOk) == <<Datagram(nonce, sendOk), Datagram(nonce, sendOk)>>

\* As poll_send, with the reading of the clock in the packet.
poll_send_reading(nonce, sendOk) == <<Datagram(last_send_timestamp', sendOk)>>

\* handle_poll: what it hands to the socket once the clock is read.
poll_send(nonce, sendOk) == <<Datagram(nonce, sendOk)>>

\* As packet_message, taking every result but a demobilization for an
\* acceptance.
packet_message_on_any(result, origin) ==
    IF result = "KissDemobilize" THEN <<Msg("MustDemobilize", None, origin)>>
    ELSE <<Msg("NewMeasurement", reset_epoch, origin)>>

\* As packet_message, taking a mismatch of the origin for an acceptance.
packet_message_on_mismatch(result, origin) ==
    IF result \in {"Ok", "OriginMismatch"} THEN <<Msg("NewMeasurement", reset_epoch, origin)>>
    ELSE IF result = "KissDemobilize" THEN <<Msg("MustDemobilize", None, origin)>>
    ELSE <<>>

\* As packet_message, taking the clock filter's rejection for an acceptance.
packet_message_on_rejection(result, origin) ==
    IF result \in {"Ok", "FilterRejectedAsOld"}
    THEN <<Msg("NewMeasurement", reset_epoch, origin)>>
    ELSE IF result = "KissDemobilize" THEN <<Msg("MustDemobilize", None, origin)>>
    ELSE <<>>

\* handle_packet: the message for a result of handle_incoming, if any.
packet_message(result, origin) ==
    IF result = "Ok" THEN <<Msg("NewMeasurement", reset_epoch, origin)>>
    ELSE IF result = "KissDemobilize" THEN <<Msg("MustDemobilize", None, origin)>>
    ELSE <<>>

\* As packet_flow, with a break after every message.
packet_flow_break_always(msg) == "done"

\* As packet_flow, without the break.
packet_flow_no_break(msg) == "select"

\* handle_packet and run: where the task goes once the message is sent
\* (ControlFlow::Break leaves the loop).
packet_flow(msg) == IF msg.kind = "MustDemobilize" THEN "done" ELSE "select"

\* As recv_discarded, without the check.
recv_discarded_never == FALSE

\* run, recv branch: a receive result is dropped while no poll was sent.
recv_discarded == last_send_timestamp = None

\* As reset_origin, without the call of reset_measurements.
reset_origin_kept == next_expected_origin

\* run, reset branch: the expected origin afterwards.
reset_origin == reset_measurements

\* As reset_adopted_epoch, keeping the task's epoch.
reset_adopted_epoch_kept == reset_epoch

\* As reset_adopted_epoch, counting one reset instead of reading the channel.
reset_adopted_epoch_counted == inc(reset_epoch)

\* run, reset branch: the epoch afterwards.
reset_adopted_epoch == watchValue

\* The poll timer is ready: its deadline has elapsed.
PollReady == instant >= deadline
\* reset.changed() is ready: the channel has a value the receiver has not seen.
ResetChanged == rxVersion # watchVersion

(***************************************************************************)
(* The task                                                                *)
(***************************************************************************)
TaskInit ==
    /\ pc = "select"
    /\ pending = <<>>
    /\ watchValue = InitialEpoch
    /\ reset_epoch = spawn_reset_epoch
    /\ last_send_timestamp = None
    /\ last_poll_sent = 0
    /\ deadline = 0
    /\ next_expected_origin = None
    /\ poll_interval = MinInterval
    /\ polls = 0
    /\ watchVersion = 0
    /\ rxVersion = 0
    /\ queued = 0
    /\ instant = 0
    /\ log = <<>>
    /\ invalidated = {}
    /\ skipped = {}
    /\ staleEmitted = 0
    /\ accepted = {}
    /\ ignoredEcho = <<>>
    /\ recvProgress = "none"
    /\ resetsDone = 0
    /\ stamped = 0

\* The filter before any sample: ClockFilterContents::new.
CoreStart(checks) ==
    /\ register = ClockFilterContents_new
    /\ updates = 0
    /\ overflow_checks = checks
    /\ last = [op |-> "none"]

\* The task is modelled with the answers of Peer State's filter left open
\* (`filterOk`), so the filter's variables stay as they start.
Init == TaskInit /\ CoreStart(TRUE)

\* A message is handed to the msg_for_system channel.
Emit(m) ==
    /\ queued' = queued + 1
    /\ staleEmitted' = IF ResetChanged /\ IsTagged(m)
                       THEN (IF staleEmitted = 0 THEN 1 ELSE 2)
                       ELSE staleEmitted

\* handle_poll up to the point where it awaits the send of UpdatedSnapshot.
HandlePollBegin ==
    /\ pc = "select"
    /\ PollReady
    /\ next_expected_origin' = generate_poll_message
    /\ polls' = polls + 1
    /\ UNCHANGED poll_interval
    /\ last_poll_sent' = instant
    /\ update_poll_wait
    /\ pending' = <<UpdatedSnapshot(generate_poll_message)>>
    /\ pc' = "poll_send"
    /\ UNCHANGED <<reset_epoch, last_send_timestamp, watchVars, queued, instant, log,
                   ghostVars>>
    /\ UNCHANGED coreVars

\* The rest of handle_poll: the send of UpdatedSnapshot completes, the clock
\* is read (an error panics), the packet is sent (an error is logged).
HandlePollEnd ==
    /\ pc = "poll_send"
    /\ queued < MsgCapacity
    /\ Emit(pending[1])
    /\ pending' = <<>>
    /\ \E clockOk \in BOOLEAN :
        IF ~clockOk
        THEN /\ pc' = "panicked"
             /\ log' = Append(log, pending[1])
             /\ UNCHANGED <<last_send_timestamp, stamped>>
        ELSE \E ts \in ClockReadings, sendOk \in BOOLEAN :
                /\ last_send_timestamp' = ts
                /\ stamped' = pending[1].nonce
                /\ log' = Append(log, pending[1]) \o poll_send(pending[1].nonce, sendOk)
                /\ pc' = "select"
    /\ UNCHANGED <<reset_epoch, last_poll_sent, deadline, peerVars, watchVars, instant,
                   invalidated, skipped, accepted, ignoredEcho, recvProgress, resetsDone>>
    /\ UNCHANGED coreVars

\* The reset branch of run. (When the sender is gone, changed() is an error
\* and the branch does nothing: a stuttering step.)
HandleReset ==
    /\ pc = "select"
    /\ ResetChanged
    /\ next_expected_origin' = reset_origin
    /\ reset_epoch' = reset_adopted_epoch
    /\ rxVersion' = watchVersion
    /\ invalidated' = 1..polls
    /\ staleEmitted' = 0
    /\ resetsDone' = resetsDone + 1
    /\ UNCHANGED <<pc, pending, last_send_timestamp, last_poll_sent, deadline,
                   poll_interval, polls, watchValue, watchVersion, queued, instant,
                   log, skipped, accepted, ignoredEcho, recvProgress, stamped>>
    /\ UNCHANGED coreVars

\* Why a server response echoing the sent nonce `origin` is a mismatch: a
\* reset came after that poll, a later poll took its place, or the nonce has
\* been used up.
Verdict(origin) ==
    IF origin \in invalidated THEN "reset"
    ELSE IF next_expected_origin # None THEN "superseded"
    ELSE "used"

\* handle_packet up to the point where it awaits the send of its message, or
\* to its end when it sends none.
handle_packet(origin, kind, filterOk, consume) ==
    LET result == handle_incoming(origin, kind, filterOk)
        msg == packet_message(result, origin)
    IN  /\ next_expected_origin' = origin_after_incoming(result, consume)
        /\ poll_interval' = interval_after_incoming(result)
        /\ UNCHANGED last_poll_sent
        /\ update_poll_wait
        /\ recvProgress' = "peer"
        /\ accepted' = IF result = "Ok" THEN accepted \cup {origin} ELSE accepted
        /\ ignoredEcho' = IF /\ kind = "server" /\ origin # 0
                              /\ result = "OriginMismatch" /\ ignoredEcho = <<>>
                           THEN <<origin, Verdict(origin)>>
                           ELSE ignoredEcho
        /\ pending' = msg
        /\ pc' = IF msg = <<>> THEN "select" ELSE "packet_send"

\* The recv branch of run: a receive result is dropped while no poll was
\* sent, whatever it is; otherwise the result `d` goes through accept_packet
\* and, if a header comes out, through handle_packet.
HandleRecv ==
    /\ pc = "select"
    /\ IF recv_discarded
       THEN /\ recvProgress' = IF recvProgress = "none" THEN "dropped" ELSE recvProgress
            /\ UNCHANGED <<pc, pending, last_poll_sent, deadline, peerVars, accepted,
                           ignoredEcho>>
       ELSE \E d \in Datagrams :
            IF accept_packet(d.res, d.size)
            THEN /\ handle_packet(d.origin, d.kind, d.filterOk, d.consume)
                 /\ UNCHANGED polls
            ELSE UNCHANGED <<pc, pending, last_poll_sent, deadline, peerVars, accepted,
                             ignoredEcho, recvProgress>>
    /\ UNCHANGED <<reset_epoch, last_send_timestamp, watchVars, queued, instant, log,
                   invalidated, skipped, staleEmitted, resetsDone, stamped>>
    /\ UNCHANGED coreVars

\* The rest of handle_packet: the send of NewMeasurement or MustDemobilize
\* completes; after MustDemobilize run returns.
HandlePacketEnd ==
    /\ pc = "packet_send"
    /\ queued < MsgCapacity
    /\ Emit(pending[1])
    /\ log' = Append(log, pending[1])
    /\ pending' = <<>>
    /\ pc' = packet_flow(pending[1])
    /\ UNCHANGED <<reset_epoch, last_send_timestamp, last_poll_sent, deadline, peerVars,
                   watchVars, instant, invalidated, skipped, accepted, ignoredEcho, recvProgress,
                   resetsDone, stamped>>
    /\ UNCHANGED coreVars

(***************************************************************************)
(* The environment                                                         *)
(***************************************************************************)
\* The supervisor publishes the next epoch on the reset channel.
Publish ==
    /\ watchVersion < MaxResets
    /\ watchValue' = inc(watchValue)
    /\ watchVersion' = watchVersion + 1
    /\ skipped' = IF ResetChanged THEN skipped \cup {watchValue} ELSE skipped
    /\ staleEmitted' = 0
    /\ UNCHANGED <<taskVars, peerVars, rxVersion, queued, instant, log,
                   invalidated, accepted, ignoredEcho, recvProgress, resetsDone, stamped>>
    /\ UNCHANGED coreVars

\* The supervisor takes a message from the msg_for_system channel. (When the
\* receiver is gone instead, a send returns at once; for the task that is a
\* channel that always has room.)
Drain ==
    /\ queued > 0
    /\ queued' = queued - 1
    /\ UNCHANGED <<taskVars, peerVars, watchVars, instant, log, ghostVars>>
    /\ UNCHANGED coreVars

\* The monotonic clock advances.
Tick ==
    /\ instant < MaxInstant
    /\ instant' = instant + 1
    /\ UNCHANGED <<taskVars, peerVars, watchVars, queued, log, ghostVars>>
    /\ UNCHANGED coreVars

Next ==
    \/ HandlePollBegin
    \/ HandlePollEnd
    \/ HandleReset
    \/ HandleRecv
    \/ HandlePacketEnd
    \/ Publish
    \/ Drain
    \/ Tick

Spec == Init /\ [][Next]_vars

\* The scheduling the code relies on: a task that can go on does (its sends
\* complete once the channel has room), the supervisor keeps taking messages,
\* and select!, which picks among the ready branches at random, does not
\* pass over a reset branch that is ready again and again.
FairSpec ==
    /\ Spec
    /\ WF_vars(HandlePollEnd)
    /\ WF_vars(HandlePacketEnd)
    /\ WF_vars(Drain)
    /\ SF_vars(HandleReset)

(***************************************************************************)
(* The pure functions of the core, applied to inputs from bounded sets.    *)
(***************************************************************************)
\* The register takes in at most MaxUpdates samples.
MaxUpdates == 3

\* Timestamps: 0 and one far enough from it for a dispersion correction of
\* one unit.
PeerTimes == {0, 70000}
\* system_precision, in units.
Precisions == {0, 9}
\* New tuples: the dummy itself; samples of small delay, old and new, with
\* offsets that agree and differ; a sample with a delay beyond
\* MAX_DISPERSION; and one with a dispersion beyond it.
Samples ==
    {DUMMY,
     FilterTuple(0, 1, 0, 70000),
     FilterTuple(16, 2, 0, 70000),
     FilterTuple(0, 2, 0, 0),
     FilterTuple(16, 1, 0, 0),
     FilterTuple(16, MAX_DISPERSION + 1, 0, 70000),
     FilterTuple(0, 1, 2 * MAX_DISPERSION, 70000)}
\* Sizes a receive reports, and the contents of the first 48 bytes.
Sizes == {HeaderSize - 1, HeaderSize, HeaderSize + 1}
Buffers == {1, 2}

taskAllVars == <<taskVars, peerVars, watchVars, queued, instant, log, ghostVars>>

CoreInit == TaskInit /\ \E checks \in BOOLEAN : CoreStart(checks)

\* No register: it was moved into a call that gave none back.
Moved == <<>>

\* A call of clock_filter with the register at hand. The register is moved
\* into the call, and the caller has the updated one only from the
\* statistics returned: after None, or a panic, there is none to go on with.
ClockFilter ==
    /\ updates < MaxUpdates
    /\ register # Moved
    /\ \E peer_time \in PeerTimes, system_precision \in Precisions,
          leap_indicator \in LeapIndicators, new_tuple \in Samples :
        LET result == clock_filter(peer_time, system_precision, leap_indicator,
                                   register, new_tuple)
        IN  /\ last' = [op |-> "clock_filter", peer_time |-> peer_time,
                        system_precision |-> system_precision,
                        leap_indicator |-> leap_indicator, filter |-> register,
                        new_tuple |-> new_tuple, result |-> result]
            /\ register' = IF result.tag = "Some" THEN result.filter ELSE Moved
            /\ updates' = IF result.tag = "Some" THEN updates + 1 ELSE updates
    /\ UNCHANGED <<overflow_checks, taskAllVars>>

\* A call of accept_packet with a receive result and the buffer. It reads
\* nothing of the filter, so it is applied from the start state only.
AcceptPacket ==
    /\ last.op = "none"
    /\ \E res \in RecvResults, size \in Sizes, buf \in Buffers,
          recv_timestamp \in ClockReadings :
        last' = [op |-> "accept_packet", res |-> res, size |-> size, buf |-> buf,
                 recv_timestamp |-> recv_timestamp,
                 result |-> accept_packet_value(res, size, buf, recv_timestamp)]
    /\ UNCHANGED <<register, updates, overflow_checks, taskAllVars>>

CoreNext ==
    \/ ClockFilter
    \/ AcceptPacket

CoreSpec == CoreInit /\ [][CoreNext]_vars

(***************************************************************************)
(* Properties                                                              *)
(***************************************************************************)
\* The entries a step adds to the log.
Added == (Len(log) + 1)..Len(log')
\* The task has left its event loop.
TaskEnded == pc \in {"done", "panicked"}
\* The messages with `kind` that answer the nonce `n`, sent or awaiting their send.
Count(kind, n) ==
    Cardinality({i \in DOMAIN log : log[i].kind = kind /\ log[i].nonce = n})
    + Cardinality({i \in DOMAIN pending : pending[i].kind = kind /\ pending[i].nonce = n})

\* C1: every NewMeasurement and every UpdatedSnapshot carries, as its epoch,
\* the reset_epoch the task holds at the moment the message is emitted,
\* however polls, receives and resets interleave.
C1_EpochOfEmission ==
    [][\A i \in Added :
         IsTagged(log'[i]) => log'[i].epoch = reset_epoch /\ log'[i].epoch = reset_epoch']_vars

\* C1, witness: a snapshot with the epoch of spawn, then, after a reset, a
\* measurement with the next epoch.
C1_Witness ==
    /\ resetsDone >= 1
    /\ \E i, j \in DOMAIN log :
        /\ i < j
        /\ log[i].kind = "UpdatedSnapshot" /\ log[i].epoch = InitialEpoch
        /\ log[j].kind = "NewMeasurement" /\ log[j].epoch = inc(InitialEpoch)

\* C2: MustDemobilize is the last thing the task does: once it is emitted the
\* task has left its loop, and no message and no poll packet follows it,
\* whatever is ready.
C2_MustDemobilizeIsLast ==
    /\ \A i \in DOMAIN log :
        log[i].kind = "MustDemobilize" => i = Len(log) /\ pc = "done" /\ pending = <<>>
    /\ pc = "done" => Len(log) > 0 /\ log[Len(log)].kind = "MustDemobilize"
    /\ (pc = "packet_send" /\ pending[1].kind = "MustDemobilize") =>
        \A i \in DOMAIN log : log[i].kind # "MustDemobilize"

\* C2, witness: the task has demobilized while the poll timer has elapsed,
\* a reset is waiting, and time has run on.
C2_Witness ==
    /\ pc = "done"
    /\ log[Len(log)].kind = "MustDemobilize"
    /\ PollReady /\ instant > last_poll_sent
    /\ ResetChanged

\* C3: a response to a poll sent before a reset that the task has processed
\* never becomes a NewMeasurement.
C3_NoMeasurementAcrossReset ==
    [][/\ \A i \in Added :
            log'[i].kind = "NewMeasurement" => log'[i].nonce \notin invalidated
       /\ \A i \in DOMAIN pending' :
            pending'[i].kind = "NewMeasurement" => pending'[i].nonce \notin invalidated']_vars

\* C3, witness: a server response echoing the nonce of a poll from before a
\* reset reaches Peer State after the reset, with a later poll sent since,
\* and no measurement for that nonce exists.
C3_Witness ==
    /\ ignoredEcho # <<>>
    /\ ignoredEcho[2] = "reset"
    /\ polls > ignoredEcho[1]
    /\ Count("NewMeasurement", ignoredEcho[1]) = 0

\* C4: once the supervisor has published its last epoch, the task reaches a
\* state from which on it holds that epoch, so that every message it emits
\* from there carries it (or it has left its loop and emits nothing); and the
\* UpdatedSnapshot of a poll that starts with no reset waiting carries the
\* channel's epoch.
C4_EventuallyNewEpoch ==
    /\ <>[](\/ TaskEnded
            \/ /\ ~ResetChanged
               /\ reset_epoch = watchValue
               /\ \A i \in DOMAIN pending : IsTagged(pending[i]) => pending[i].epoch = watchValue)
    /\ [][(pc = "select" /\ pc' = "poll_send" /\ ~ResetChanged)
            => pending'[1].epoch = watchValue]_vars

\* C4, witness: after a reset has been processed, a poll's UpdatedSnapshot
\* with the epoch published last is the latest message.
C4_Witness ==
    /\ resetsDone >= 1 /\ ~ResetChanged /\ watchValue # InitialEpoch
    /\ Len(Messages) >= 2
    /\ Messages[1].epoch = InitialEpoch
    /\ Messages[Len(Messages)].kind = "UpdatedSnapshot"
    /\ Messages[Len(Messages)].epoch = watchValue

\* C5, as claimed: between a publish and the reset that processes it, at most
\* one message tagged with the old epoch is emitted.
C5_AtMostOneStale == staleEmitted <= 1

\* C5, amended: a message tagged with an epoch other than the one the reset
\* channel holds is emitted only while a published epoch is not yet
\* processed; once the reset branch has run there is none.
C5_StaleOnlyBeforeReset ==
    [][\A i \in Added :
         (IsTagged(log'[i]) /\ log'[i].epoch # watchValue) => ResetChanged]_vars

\* C5, witness: two messages with the old epoch went out after a publish,
\* and the reset is still waiting.
C5_Witness ==
    /\ staleEmitted = 2
    /\ ResetChanged
    /\ Len(Messages) >= 2
    /\ Messages[Len(Messages)].epoch # watchValue
    /\ Messages[Len(Messages) - 1].epoch # watchValue

\* The nonces that a server response has echoed to Peer State: those it
\* accepted, and the one it turned down because a later poll or a reset had
\* come. (A response that found its nonce used up is a further copy of an
\* accepted one, or follows a header that Peer State ignored; it is left out.)
Answered ==
    accepted \cup (IF ignoredEcho # <<>> /\ ignoredEcho[2] \in {"superseded", "reset"}
                   THEN {ignoredEcho[1]} ELSE {})

\* C6, as claimed: for every poll whose nonce a server response has echoed,
\* exactly one NewMeasurement is emitted.
C6_ExactlyOnePerAnsweredPoll ==
    (pc = "select" \/ TaskEnded) =>
        \A n \in Answered : Count("NewMeasurement", n) = 1

\* C6, amended: for every poll at most one NewMeasurement is emitted, and
\* exactly one when Peer State accepts a response echoing its nonce, that is
\* when the response arrives while the poll is the outstanding one (no later
\* poll, no reset, no earlier answer) and the clock filter takes it; a
\* further copy yields none.
C6_AtMostOnePerPoll ==
    \A n \in 0..polls :
        /\ Count("NewMeasurement", n) <= 1
        /\ Count("NewMeasurement", n) = 1 <=> n \in accepted

\* C6, witness: a response was accepted and measured once, and a further
\* copy of it was ignored.
C6_Witness ==
    /\ pc = "select"
    /\ ignoredEcho # <<>>
    /\ ignoredEcho[2] = "used"
    /\ ignoredEcho[1] \in accepted
    /\ Count("NewMeasurement", ignoredEcho[1]) = 1

\* C7: a NewMeasurement comes only from a packet whose origin timestamp is
\* the nonce of the outstanding poll.
C7_MeasurementEchoesOutstanding ==
    [][/\ \A i \in DOMAIN pending' :
            (pending = <<>> /\ pending'[i].kind = "NewMeasurement") =>
                next_expected_origin # None /\ pending'[i].nonce = next_expected_origin
       /\ \A i \in Added :
            log'[i].kind = "NewMeasurement" => pending = <<log'[i]>>]_vars

\* C7, witness: a server response to a poll that a newer poll has replaced
\* reached Peer State, and no measurement for it exists.
C7_Witness ==
    /\ pc = "select"
    /\ ignoredEcho # <<>>
    /\ ignoredEcho[2] = "superseded"
    /\ ignoredEcho[1] < polls
    /\ Count("NewMeasurement", ignoredEcho[1]) = 0

\* C8: the first message is an UpdatedSnapshot, tagged with the epoch of
\* spawn unless a reset was processed; while no poll packet was sent no
\* receive result reaches Peer State, and no NewMeasurement or
\* MustDemobilize exists.
C8_FirstIsUpdatedSnapshot ==
    /\ Len(Messages) > 0 =>
        /\ Messages[1].kind = "UpdatedSnapshot"
        /\ Messages[1].nonce = 1
        /\ (Messages[1].epoch = InitialEpoch \/ resetsDone > 0)
    /\ last_send_timestamp = None =>
        /\ recvProgress # "peer"
        /\ \A i \in DOMAIN Messages : Messages[i].kind = "UpdatedSnapshot"
        /\ \A i \in DOMAIN pending : pending[i].kind = "UpdatedSnapshot"

\* C8, witness: a receive result was dropped before the first poll, a reset
\* was processed, and the first message is the UpdatedSnapshot of the first
\* poll with the epoch of that reset.
C8_Witness ==
    /\ recvProgress = "dropped"
    /\ Len(Messages) = 1
    /\ Messages[1].kind = "UpdatedSnapshot"
    /\ Messages[1].epoch = inc(InitialEpoch)
    /\ last_send_timestamp # None

\* The polls whose handler has got past the send of UpdatedSnapshot.
PollsEmitted == IF pc = "poll_send" THEN polls - 1 ELSE polls

\* C9, as claimed: every poll emits one UpdatedSnapshot and then hands one
\* packet of 48 bytes to the socket; no packet goes without the snapshot
\* before it.
C9_SnapshotThenDatagram ==
    /\ \A i \in DOMAIN log :
        log[i].kind = "UpdatedSnapshot" =>
            /\ i < Len(log)
            /\ log[i + 1].kind = "Datagram"
            /\ log[i + 1].nonce = log[i].nonce
            /\ log[i + 1].size = HeaderSize
    /\ \A i \in DOMAIN log :
        log[i].kind = "Datagram" =>
            /\ i > 1
            /\ log[i - 1].kind = "UpdatedSnapshot"
            /\ log[i - 1].nonce = log[i].nonce
    /\ \A n \in 1..PollsEmitted :
        Count("UpdatedSnapshot", n) = 1 /\ Count("Datagram", n) = 1

\* C9, amended: every poll emits one UpdatedSnapshot and then, unless the
\* read of the clock fails and the task panics, makes one call of
\* socket.send with the packet of 48 bytes (a call that fails is only
\* logged); no poll makes two calls, and none goes without the snapshot
\* before it.
C9_SnapshotThenDatagramUnlessPanic ==
    /\ \A i \in DOMAIN log :
        log[i].kind = "UpdatedSnapshot" =>
            \/ /\ i < Len(log)
               /\ log[i + 1].kind = "Datagram"
               /\ log[i + 1].nonce = log[i].nonce
               /\ log[i + 1].size = HeaderSize
            \/ i = Len(log) /\ pc = "panicked"
    /\ \A i \in DOMAIN log :
        log[i].kind = "Datagram" =>
            /\ i > 1
            /\ log[i - 1].kind = "UpdatedSnapshot"
            /\ log[i - 1].nonce = log[i].nonce
    /\ \A n \in 1..PollsEmitted :
        /\ Count("UpdatedSnapshot", n) = 1
        /\ Count("Datagram", n) = IF pc = "panicked" /\ n = polls THEN 0 ELSE 1

\* C9, witness: a first poll that sent its packet, a second one whose send
\* failed, and the task back in its loop.
C9_Witness ==
    /\ pc = "select"
    /\ polls = 2
    /\ Len(log) >= 4
    /\ \E i \in DOMAIN log : log[i].kind = "Datagram" /\ log[i].nonce = 1 /\ log[i].ok
    /\ \E i \in DOMAIN log : log[i].kind = "Datagram" /\ log[i].nonce = 2 /\ ~log[i].ok

\* C10: resets coalesce. Every published epoch is skipped, processed by one
\* run of the reset branch, or still waiting; when none is waiting the task
\* holds the epoch the channel holds; and no message carries a skipped epoch.
C10_ResetsCoalesce ==
    /\ resetsDone + Cardinality(skipped) + (IF ResetChanged THEN 1 ELSE 0) = watchVersion
    /\ ~ResetChanged => reset_epoch = watchValue
    /\ \A i \in DOMAIN log : IsTagged(log[i]) => log[i].epoch \notin skipped
    /\ \A i \in DOMAIN pending : IsTagged(pending[i]) => pending[i].epoch \notin skipped

\* C10, witness: two epochs were published before the task processed
\* either; one reset adopted the second, and a message carries it.
C10_Witness ==
    /\ watchVersion = 2
    /\ skipped = {inc(InitialEpoch)}
    /\ resetsDone = 1
    /\ ~ResetChanged
    /\ reset_epoch = inc(inc(InitialEpoch))
    /\ \E i \in DOMAIN log : IsTagged(log[i]) /\ log[i].epoch = watchValue

(***************************************************************************)
(* Properties of the pure functions (CoreSpec)                             *)
(***************************************************************************)
\* The last step was a call of clock_filter / one that returned statistics.
Filtered == last.op = "clock_filter"
FilteredSome == Filtered /\ last.result.tag = "Some"
\* The temporary list of the register that the last call returned.
TemporaryOfResult == from_clock_filter_contents(last.result.filter)
Max(a, b) == IF a >= b THEN a ELSE b

\* C11, as claimed: whatever the register, a new tuple whose time is not
\* after peer_time is turned down (None) when the leap indicator is
\* synchronized.
C11_OldTupleRejected ==
    (/\ Filtered
     /\ last.new_tuple.time <= last.peer_time
     /\ is_synchronized(last.leap_indicator))
    => last.result.tag = "None"

\* C11, amended: with a synchronized leap indicator, a new tuple whose time
\* is not after peer_time is turned down when no tuple kept in the register
\* has a time after peer_time either (as in the all-dummy register); the
\* check is made on the tuple of smallest delay, which need not be the new one.
C11_OldTupleRejectedUnlessNewerKept ==
    (/\ Filtered
     /\ last.new_tuple.time <= last.peer_time
     /\ is_synchronized(last.leap_indicator)
     /\ \A i \in 1..(RegisterLen - 1) : last.filter[i].time <= last.peer_time)
    => last.result.tag = "None"

\* C11, witness: a register holding a sample, all of whose times are not
\* after peer_time, turns down a new tuple with a time equal to peer_time.
C11_Witness ==
    /\ Filtered
    /\ last.filter # ClockFilterContents_new
    /\ ~is_dummy(last.new_tuple)
    /\ last.new_tuple.time = last.peer_time
    /\ is_synchronized(last.leap_indicator)
    /\ \A i \in 1..(RegisterLen - 1) : last.filter[i].time <= last.peer_time
    /\ last.result.tag = "None"

RECURSIVE MaxDispersion(_)
MaxDispersion(reg) ==
    IF Len(reg) = 1 THEN reg[1].dispersion
    ELSE Max(reg[Len(reg)].dispersion, MaxDispersion(SubSeq(reg, 1, Len(reg) - 1)))

\* C13, as claimed: the dispersion statistic is at most MAX_DISPERSION for
\* every register reached by calls of clock_filter and every new tuple.
C13_DispersionBounded ==
    FilteredSome => last.result.dispersion <= MAX_DISPERSION

\* C13, amended: the dispersion statistic is at most the largest dispersion
\* among the 8 tuples of the updated register (or 0 if that is negative),
\* hence at most MAX_DISPERSION as long as no tuple's dispersion exceeds it;
\* neither the new tuple's dispersion nor what aging adds is capped, so it
\* can be larger.
C13_DispersionBoundedByLargest ==
    FilteredSome =>
        /\ last.result.dispersion <= Max(0, MaxDispersion(last.result.filter))
        /\ MaxDispersion(last.result.filter) <= MAX_DISPERSION
            => last.result.dispersion <= MAX_DISPERSION

\* C13, witness: with a sample whose dispersion has grown by aging beyond
\* twice MAX_DISPERSION in the register, the statistic lies above
\* MAX_DISPERSION and below that sample's dispersion.
C13_Witness ==
    /\ FilteredSome
    /\ last.result.dispersion > MAX_DISPERSION
    /\ MaxDispersion(last.result.filter) > 2 * MAX_DISPERSION
    /\ last.result.dispersion < MaxDispersion(last.result.filter)

\* C14: the dispersion of the all-dummy register is MAX_DISPERSION *
\* (1 - 2^-8), a little less than 16 s: it differs from MAX_DISPERSION
\* (16 s) by less than 0.1 s. Both for the register before its first sample
\* and for the statistic of a call that returns the all-dummy register.
C14_DispersionOfDummys ==
    /\ register = ClockFilterContents_new =>
        LET value == dispersion(from_clock_filter_contents(register))
        IN  /\ 2^RegisterLen * value = (2^RegisterLen - 1) * MAX_DISPERSION
            /\ value < MAX_DISPERSION
            /\ 160 * (MAX_DISPERSION - value) < MAX_DISPERSION
    /\ (FilteredSome /\ last.result.filter = ClockFilterContents_new) =>
        /\ 2^RegisterLen * last.result.dispersion = (2^RegisterLen - 1) * MAX_DISPERSION
        /\ 160 * (MAX_DISPERSION - last.result.dispersion) < MAX_DISPERSION

\* C14, witness: a call of clock_filter that returned the all-dummy register
\* with its dispersion statistic.
C14_Witness ==
    /\ FilteredSome
    /\ register = ClockFilterContents_new
    /\ last.result.filter = ClockFilterContents_new
    /\ last.result.dispersion < MAX_DISPERSION
    /\ last.result.dispersion > 0

\* The dispersion correction of the last call of clock_filter.
CorrectionOfLast ==
    multiply_by_phi(timestamp_sub(last.new_tuple.time, last.peer_time))

\* C15: shift_and_insert keeps the register at 8 tuples, puts the new tuple
\* unchanged at index 0, and makes each later stage the stage before it of
\* the old register, with the correction added to its dispersion unless it
\* was the dummy; the old last stage is gone.
C15_ShiftAndInsert ==
    FilteredSome =>
        /\ Len(last.result.filter) = RegisterLen
        /\ Len(last.filter) = RegisterLen
        /\ last.result.filter[1] = last.new_tuple
        /\ \A i \in 2..RegisterLen :
            last.result.filter[i] =
                IF last.filter[i - 1] = DUMMY THEN DUMMY
                ELSE FilterTuple(last.filter[i - 1].offset, last.filter[i - 1].delay,
                                 last.filter[i - 1].dispersion + CorrectionOfLast,
                                 last.filter[i - 1].time)

\* C15, witness: a register with two samples and dummies takes a third
\* sample with a correction other than 0: the samples are aged, the dummies
\* are not.
C15_Witness ==
    /\ FilteredSome
    /\ CorrectionOfLast # 0
    /\ ~is_dummy(last.filter[1]) /\ ~is_dummy(last.filter[2]) /\ is_dummy(last.filter[3])
    /\ last.result.filter[2].dispersion = last.filter[1].dispersion + CorrectionOfLast
    /\ last.result.filter[3].dispersion = last.filter[2].dispersion + CorrectionOfLast
    /\ is_dummy(last.result.filter[4])

\* The number of stages of a register that hold the tuple t.
Occurrences(reg, t) == Cardinality({i \in DOMAIN reg : reg[i] = t})
IsPermutation(a, b) ==
    /\ Len(a) = Len(b)
    /\ \A i \in DOMAIN a : Occurrences(a, a[i]) = Occurrences(b, a[i])
IsSortedByDelay(reg) ==
    \A i \in 1..(Len(reg) - 1) : reg[i].delay <= reg[i + 1].delay

\* C16: the temporary list of a register is a permutation of its 8 tuples
\* in order of non-decreasing delay; the temporary list of a sorted register
\* is that register; and the register returned by clock_filter is the
\* shifted one, not the sorted one.
C16_TemporaryIsSortedPermutation ==
    /\ register # Moved =>
        LET temporary == from_clock_filter_contents(register)
        IN  /\ IsPermutation(temporary, register)
            /\ IsSortedByDelay(temporary)
            /\ from_clock_filter_contents(temporary) = temporary
            /\ IsSortedByDelay(register) => temporary = register
    /\ FilteredSome =>
        /\ register = last.result.filter
        /\ last.result.filter[1] = last.new_tuple
        /\ \A i \in 2..RegisterLen :
            /\ last.result.filter[i].delay = last.filter[i - 1].delay
            /\ last.result.filter[i].time = last.filter[i - 1].time
        /\ last.result.delay = from_clock_filter_contents(register)[1].delay

\* C16, witness: the returned register is not in order of delay (the new
\* tuple has a larger delay than the sample behind it), so its temporary
\* list differs from it.
C16_Witness ==
    /\ FilteredSome
    /\ ~IsSortedByDelay(register)
    /\ register[1].delay > register[2].delay
    /\ from_clock_filter_contents(register) # register
    /\ from_clock_filter_contents(register)[1] = register[2]
    /\ last.result.delay = register[2].delay

\* C17, as claimed: clock_filter does not panic: for every register and
\* every input, the dummy as new tuple included, it returns None or Some,
\* and whenever the jitter is computed there is at least one valid tuple.
C17_ClockFilterNeverPanics ==
    Filtered =>
        /\ last.result.tag \in {"None", "Some"}
        /\ last.result.tag = "Some" => Len(valid_tuples(TemporaryOfResult)) >= 1

\* The last step was a call of accept_packet.
Accepting == last.op = "accept_packet"

\* C18: accept_packet returns the header and the receive timestamp exactly
\* when the receive result is Ok, has a timestamp and reports at least 48
\* bytes; an IO error, a missing timestamp (whatever the size) and a size
\* below 48 give None; a larger size is accepted, and the header is that of
\* the 48 bytes of the buffer.
C18_AcceptPacket ==
    Accepting =>
        /\ last.result.tag = "Some" <=> (last.res = "ok" /\ last.size >= HeaderSize)
        /\ last.result.tag \in {"Some", "None"}
        /\ last.res = "io_error" => last.result.tag = "None"
        /\ last.res = "no_timestamp" => last.result.tag = "None"
        /\ last.size < HeaderSize => last.result.tag = "None"
        /\ last.result.tag = "Some" =>
            /\ last.result.header = deserialize(last.buf)
            /\ last.result.recv_timestamp = last.recv_timestamp

\* C18, witness: a receive result with a timestamp and more than 48 bytes
\* is accepted.
C18_Witness ==
    /\ Accepting
    /\ last.res = "ok"
    /\ last.size > HeaderSize
    /\ last.result.tag = "Some"
    /\ last.result.header = deserialize(last.buf)

\* The poll packets handed to the socket among the first i entries of the log.
PacketsUpTo(i) == Cardinality({j \in 1..i : log[j].kind = "Datagram"})

C20_NoneExactlyWhenNotNewer ==
    Filtered =>
        LET updated == shift_and_insert(last.filter, last.new_tuple, CorrectionOfLast)
            best == smallest_delay(from_clock_filter_contents(updated))
            notNewer == /\ timestamp_sub(best.time, last.peer_time) <= 0
                        /\ is_synchronized(last.leap_indicator)
        IN  /\ last.result.tag = "None" <=> notNewer
            /\ ~notNewer =>
                /\ last.result.tag = "Some"
                /\ last.result.offset = best.offset
                /\ last.result.delay = best.delay
                /\ last.result.filter_time = best.time
                /\ last.result.filter = updated

\* A tuple is valid: it is not the dummy.
NotDummy(t) == ~is_dummy(t)

\* C21, as claimed: for every register reached through clock_filter,
\* valid_tuples gives exactly the tuples of the temporary list that are not
\* the dummy, as a prefix of the list, with no dummy among them, and nothing
\* for the all-dummy register.
C21_ValidTuplesAreTheNonDummy ==
    register # Moved =>
        LET temporary == from_clock_filter_contents(register)
            valid == valid_tuples(temporary)
        IN  /\ valid = SelectSeq(temporary, NotDummy)
            /\ valid = SubSeq(temporary, 1, Len(valid))
            /\ \A i \in DOMAIN valid : ~is_dummy(valid[i])
            /\ register = ClockFilterContents_new => valid = <<>>

\* The sum of the squares of the differences of the offsets of `tuples`
\* to the offset of `best`.
RECURSIVE SquaredScatter(_, _)
SquaredScatter(tuples, best) ==
    IF tuples = <<>> THEN 0
    ELSE (Head(tuples).offset - best.offset) * (Head(tuples).offset - best.offset)
         + SquaredScatter(Tail(tuples), best)

\* C22, as claimed: with n >= 2 valid tuples (tuples other than the dummy)
\* in the temporary list, the jitter is the larger of system_precision and
\* the root of the sum, over the valid tuples, of the squared differences of
\* their offsets to best's, divided by n - 1; and for every n the jitter is
\* at least system_precision.
C22_JitterOverValidTuples ==
    FilteredSome =>
        LET valid == SelectSeq(TemporaryOfResult, NotDummy)
            n == Len(valid)
            sumsq == SquaredScatter(valid, TemporaryOfResult[1])
            p == last.system_precision
            jit == last.result.jitter
        IN  /\ n >= 2 =>
                /\ ~IsNaN(jit) /\ jit.den # 0
                /\ IF sumsq >= p * p * (n - 1) * (n - 1)
                   THEN jit.sq * (n - 1) * (n - 1) = sumsq * jit.den * jit.den
                   ELSE FloatIs(jit, p)
            /\ ~IsNaN(jit) /\ jit.den # 0 /\ jit.sq >= p * p * jit.den * jit.den

\* The time from peer_time to the new tuple of the last call.
AgeOfLast == timestamp_sub(last.new_tuple.time, last.peer_time)
\* What the last call has added to the dispersion of the tuple it moved to
\* stage i.
Added_dispersion(i) == last.result.filter[i].dispersion - last.filter[i - 1].dispersion

\* C26, as claimed: no call of clock_filter that returns Some lowers the
\* dispersion of a tuple it carries over.
C26_AgingNeverLowers ==
    FilteredSome => \A i \in 2..RegisterLen : Added_dispersion(i) >= 0

\* C26, amended: a call that returns Some adds to each tuple it carries
\* over, unless the tuple is the dummy, 15 millionths of the time from
\* peer_time to the new tuple, cut off toward zero. That is not negative
\* when the new tuple's time is not before peer_time; when it is before
\* (the call can still return Some: the leap indicator is not synchronized,
\* or a kept tuple is the one of smallest delay), the dispersion is lowered.
C26_AgingFollowsAge ==
    FilteredSome =>
        \A i \in 2..RegisterLen :
            IF is_dummy(last.filter[i - 1]) THEN Added_dispersion(i) = 0
            ELSE IF AgeOfLast >= 0
            THEN /\ Added_dispersion(i) >= 0
                 /\ Added_dispersion(i) * 1000000 <= 15 * AgeOfLast
                 /\ 15 * AgeOfLast < (Added_dispersion(i) + 1) * 1000000
            ELSE /\ Added_dispersion(i) <= 0
                 /\ Added_dispersion(i) * 1000000 >= 15 * AgeOfLast
                 /\ 15 * AgeOfLast > (Added_dispersion(i) - 1) * 1000000

\* C26, witness: a new tuple older than peer_time is taken in under an
\* unsynchronized leap indicator, and the sample behind it loses dispersion.
C26_Witness ==
    /\ FilteredSome
    /\ AgeOfLast < 0
    /\ ~is_synchronized(last.leap_indicator)
    /\ ~is_dummy(last.filter[1])
    /\ Added_dispersion(2) < 0

\* A step of the recv branch of run: the task leaves select! by a step that
\* is no poll, no reset and no step of the environment.
RecvStep == pc = "select" /\ UNCHANGED <<polls, resetsDone, watchVersion, queued, instant>>
\* A step of the poll branch up to its first await.
PollStep == pc = "select" /\ polls' = polls + 1

\* C23: run ends only when MustDemobilize has been sent or when the clock
\* fails in a poll. A poll whose packet could not be sent returns to the loop
\* with the timer as handle_poll armed it. A receive step ends nothing and
\* emits nothing by itself; it goes on to send a message only for a header
\* that echoes the outstanding nonce of a poll that was sent, so that a
\* receive error, a short packet, a packet before the first poll and an
\* ignored header all return to the loop with no message.
C23_EndsOnlyOnDemobilizeOrClock ==
    [][/\ (~TaskEnded /\ TaskEnded') =>
            \/ /\ pc = "packet_send"
               /\ pending[1].kind = "MustDemobilize"
               /\ pc' = "done"
            \/ /\ pc = "poll_send"
               /\ pc' = "panicked"
               /\ UNCHANGED last_send_timestamp
               /\ \A i \in Added : log'[i].kind # "Datagram"
       /\ (pc = "poll_send" /\ pc' # pc /\ ~TaskEnded') =>
            /\ pc' = "select"
            /\ UNCHANGED <<deadline, last_poll_sent>>
            /\ \E i \in Added : log'[i].kind = "Datagram"
       /\ (pc = "packet_send" /\ pc' # pc /\ pending[1].kind # "MustDemobilize") =>
            pc' = "select"
       /\ RecvStep =>
            /\ UNCHANGED <<log, queued>>
            /\ pc' \in {"select", "packet_send"}
            /\ pc' = "select" => pending' = <<>>
            /\ pc' = "packet_send" =>
                /\ last_send_timestamp # None
                /\ next_expected_origin # None
                /\ pending'[1].nonce = next_expected_origin
                /\ pending'[1].kind \in {"NewMeasurement", "MustDemobilize"}
            /\ (deadline' # deadline) => poll_interval' # poll_interval
      ]_vars

\* C23, witness: the packet of the first poll could not be sent, a header
\* reached Peer State and was ignored, and the second poll has fired; the
\* task is in its loop and has sent nothing but its snapshots.
C23_Witness ==
    /\ pc = "select"
    /\ recvProgress = "peer"
    /\ \A i \in DOMAIN log : log[i].kind \in {"UpdatedSnapshot", "Datagram"}
    /\ \E i, j \in DOMAIN log :
        /\ i < j
        /\ log[i].kind = "Datagram" /\ ~log[i].ok /\ log[i].nonce = 1
        /\ log[j].kind = "UpdatedSnapshot" /\ log[j].nonce = 2

====
